---- MODULE Spec2Model ----
(***************************************************************************)
(* Model of the OCR-to-table tool of llama3.2_OCR.                         *)
(*                                                                         *)
(*   src/src/ocr_processor.py  OCRProcessor: split_image_into_horizontal_  *)
(*                             stripes, encode_image_pil, ocr,             *)
(*                             format_to_table                             *)
(*   src/app.py                the Streamlit script: upload, resize,       *)
(*                             split, per-stripe OCR loop, consolidation,  *)
(*                             display and download                        *)
(*                                                                         *)
(* Three specifications share the variables:                               *)
(*   SpecSplit   a direct call of split_image_into_horizontal_stripes      *)
(*               with arguments drawn from bounded sets;                   *)
(*   SpecFormat  a direct call of format_to_table with a list drawn from   *)
(*               a bounded set;                                            *)
(*   Spec        one run of the script app.py.                             *)
(*                                                                         *)
(* Strings are sequences of characters.  The overlap fraction is a         *)
(* rational [num, den]; for the fractions used here (multiples of 1/4,     *)
(* 1/10, -1/10, 11/10) and the heights used here, Python's                 *)
(* int(stripe_height * overlap) equals the truncated exact quotient.       *)
(***************************************************************************)
EXTENDS Integers, Sequences, FiniteSets

VARIABLES
    image,             \* the image handed to the splitter: Some([width, height]), or NoValue
    stripe_count,      \* argument stripe_count of the split call
    overlap,           \* argument overlap of the split call, a rational [num, den]
    split_status,      \* "pending", "returned" or "ZeroDivisionError"
    stripes,           \* the list returned by the split call (crop boxes)
    pc,                \* position of the script app.py
    step,              \* app.py: step, the number of loop iterations started
    in_flight,         \* a vision-model request is awaiting its response
    markdown_runs,     \* app.py: markdown_runs / parameter of format_to_table
    fmt_status,        \* format_to_table: "idle", "called", "invoked", "returned", "raised", "ValueError"
    fmt_result,        \* Some(value returned by format_to_table), or NoValue
    table_output,      \* app.py: Some(table_output), or NoValue
    shown,             \* st.markdown(table_output) was executed
    download_offered,  \* st.download_button(...) was executed
    vision_calls,      \* log: stripe numbers (1-based) sent to the vision model, in order
    extracted,         \* log: stripe number -> text returned by ocr() for it
    ocr_failed,        \* log: some ocr() call raised
    consolidation_requests  \* log: the combined texts sent to the consolidation model

vars == <<image, stripe_count, overlap, split_status, stripes, pc, step, in_flight,
          markdown_runs, fmt_status, fmt_result, table_output, shown, download_offered,
          vision_calls, extracted, ocr_failed, consolidation_requests>>

splitVars == <<image, stripe_count, overlap, split_status, stripes>>
fmtVars   == <<markdown_runs, fmt_status, fmt_result, consolidation_requests>>
appVars   == <<pc, step, in_flight, table_output, shown, download_offered,
               vision_calls, extracted, ocr_failed>>

\* Optional values: None is the empty tuple, Some(x) the one-element tuple
NoValue == <<>>
Some(x) == <<x>>
TheValue(o) == o[1]

(***************************************************************************)
(* Bounds of the model.                                                    *)
(***************************************************************************)
MaxWidth       == 2
MaxHeight      == 12
MaxStripeCount == 6
MaxTextLen     == 2
MaxRuns        == 2

(***************************************************************************)
(* Python arithmetic.                                                      *)
(***************************************************************************)
Max(a, b) == IF a >= b THEN a ELSE b
Min(a, b) == IF a <= b THEN a ELSE b

\* a // b for b # 0: the quotient rounded towards minus infinity
FloorDiv(a, b) == IF b > 0 THEN a \div b ELSE (-a) \div (-b)

\* int(p / q) for q > 0: the quotient truncated towards zero
IntTrunc(p, q) == IF p >= 0 THEN p \div q ELSE -((-p) \div q)

(***************************************************************************)
(* Strings.                                                                *)
(***************************************************************************)
Alphabet == {"a", " "}
IsSpace(c) == c \in {" ", "\n", "\t"}

StringsUpTo(k) == UNION {[1..m -> Alphabet] : m \in 0..k}

RECURSIVE LStrip(_)
LStrip(s) == IF s = <<>> THEN s
             ELSE IF IsSpace(Head(s)) THEN LStrip(Tail(s)) ELSE s

RECURSIVE RStrip(_)
RStrip(s) == IF s = <<>> THEN s
             ELSE IF IsSpace(s[Len(s)]) THEN RStrip(SubSeq(s, 1, Len(s) - 1)) ELSE s

\* str.strip()
strip(s) == RStrip(LStrip(s))

\* the separator "\n\n" of format_to_table
BlankLine == <<"\n", "\n">>

\* sep.join(parts)
RECURSIVE join(_, _)
join(sep, parts) ==
    IF parts = <<>> THEN <<>>
    ELSE IF Len(parts) = 1 THEN parts[1]
    ELSE parts[1] \o sep \o join(sep, Tail(parts))

(***************************************************************************)
(* split_image_into_horizontal_stripes.                                    *)
(***************************************************************************)
\* stripe_height = height // stripe_count
stripe_height(height, sc) == FloorDiv(height, sc)

\* variant: the fraction is truncated before it is scaled, int(overlap) * stripe_height
overlap_height_truncated_first(sh, ov) == sh * IntTrunc(ov.num, ov.den)

\* overlap_height = int(stripe_height * overlap)
overlap_height(sh, ov) == IntTrunc(sh * ov.num, ov.den)

\* variant: the upper bound is not moved up by the overlap
upper_without_overlap(i, sh, oh) == Max(i * sh, 0)

\* variant: the upper bound is not clamped at the top edge
upper_unclamped(i, sh, oh) == i * sh - oh

\* upper = max(i * stripe_height - overlap_height, 0), i 0-based
upper(i, sh, oh) == Max(i * sh - oh, 0)

\* variant: the lower bound is not clamped at the bottom edge
lower_unclamped(i, sh, oh, height) == (i + 1) * sh + oh

\* lower = min((i + 1) * stripe_height + overlap_height, height), i 0-based
lower(i, sh, oh, height) == Min((i + 1) * sh + oh, height)

\* image.crop((0, upper, width, lower)): the box of the stripe
crop(left, up, right, low) == [left |-> left, upper |-> up, right |-> right, lower |-> low]

\* the whole function: its outcome and the list it returns
split_image_into_horizontal_stripes(img, sc, ov) ==
    IF sc = 0
    THEN [status |-> "ZeroDivisionError", stripes |-> <<>>]
    ELSE LET sh == stripe_height(img.height, sc)
             oh == overlap_height(sh, ov)
         IN  [status  |-> "returned",
              stripes |-> IF sc < 1 THEN <<>>
                          ELSE [k \in 1..sc |->
                                  crop(0, upper(k - 1, sh, oh),
                                       img.width, lower(k - 1, sh, oh, img.height))]]

(***************************************************************************)
(* Inputs.                                                                 *)
(***************************************************************************)
ExampleImage == [width |-> 500, height |-> 1000]
Images == {[width |-> w, height |-> h] : w \in 1..MaxWidth, h \in 1..MaxHeight}
              \cup {ExampleImage}

StripeCounts == -1..MaxStripeCount

Frac(p, q) == [num |-> p, den |-> q]
ValidOverlaps   == {Frac(0, 1), Frac(1, 10), Frac(1, 4), Frac(1, 2), Frac(3, 4), Frac(1, 1)}
InvalidOverlaps == {Frac(-1, 10), Frac(11, 10)}
Overlaps == ValidOverlaps \cup InvalidOverlaps

RawResponses == StringsUpTo(MaxTextLen)

RunLists == UNION {[1..m -> RawResponses] : m \in 0..MaxRuns}

Quiet ==
    /\ pc = "Idle" /\ step = 0 /\ in_flight = FALSE
    /\ table_output = NoValue /\ shown = FALSE /\ download_offered = FALSE
    /\ vision_calls = <<>> /\ extracted = <<>> /\ ocr_failed = FALSE

(***************************************************************************)
(* SpecSplit: a direct call of split_image_into_horizontal_stripes.        *)
(***************************************************************************)
InitSplit ==
    /\ image \in {Some(img) : img \in Images}
    /\ stripe_count \in StripeCounts
    /\ overlap \in Overlaps
    /\ split_status = "pending"
    /\ stripes = <<>>
    /\ markdown_runs = <<>> /\ fmt_status = "idle" /\ fmt_result = NoValue
    /\ consolidation_requests = <<>>
    /\ Quiet

CallSplit ==
    /\ split_status = "pending"
    /\ image # NoValue
    /\ LET r == split_image_into_horizontal_stripes(TheValue(image), stripe_count, overlap)
       IN  /\ split_status' = r.status
           /\ stripes' = r.stripes
    /\ UNCHANGED <<image, stripe_count, overlap>>
    /\ UNCHANGED fmtVars
    /\ UNCHANGED appVars

NextSplit == CallSplit

SpecSplit == InitSplit /\ [][NextSplit]_vars

(***************************************************************************)
(* format_to_table (ocr_processor.py).  The function builds the client,    *)
(* joins the list, sends the request and returns the stripped response;    *)
(* it contains no check of its argument.                                   *)
(***************************************************************************)
\* combined_markdown = "\n\n".join(markdown_runs)
combined_markdown(runs) == join(BlankLine, runs)

\* lines 155-181: the request is sent to the consolidation model
FormatInvoke ==
    /\ fmt_status = "called"
    /\ consolidation_requests' = Append(consolidation_requests, combined_markdown(markdown_runs))
    /\ fmt_status' = "invoked"
    /\ UNCHANGED <<markdown_runs, fmt_result>>
    /\ UNCHANGED splitVars
    /\ UNCHANGED appVars

\* lines 181-182: the response arrives; return response.content.strip()
FormatReturn(raw) ==
    /\ fmt_status = "invoked"
    /\ fmt_result' = Some(strip(raw))
    /\ fmt_status' = "returned"
    /\ UNCHANGED <<markdown_runs, consolidation_requests>>
    /\ UNCHANGED splitVars
    /\ UNCHANGED appVars

\* line 181: groq_llm.invoke raises once the client's max_retries = 3 are used up
FormatRaise ==
    /\ fmt_status = "invoked"
    /\ fmt_status' = "raised"
    /\ UNCHANGED <<markdown_runs, fmt_result, consolidation_requests>>
    /\ UNCHANGED splitVars
    /\ UNCHANGED appVars

(***************************************************************************)
(* SpecFormat: a direct call of format_to_table.                           *)
(***************************************************************************)
InitFormat ==
    /\ markdown_runs \in RunLists
    /\ fmt_status = "called"
    /\ fmt_result = NoValue
    /\ consolidation_requests = <<>>
    /\ image = NoValue /\ stripe_count = 5 /\ overlap = Frac(1, 10)
    /\ split_status = "pending" /\ stripes = <<>>
    /\ Quiet

NextFormat ==
    \/ FormatInvoke
    \/ \E raw \in RawResponses : FormatReturn(raw)
    \/ FormatRaise

SpecFormat == InitFormat /\ [][NextFormat]_vars

(***************************************************************************)
(* The script app.py.                                                      *)
(***************************************************************************)
\* default arguments of split_image_into_horizontal_stripes
DefaultStripeCount == 5
DefaultOverlap == Frac(1, 10)

\* app.py: n, the number of runs over the stripes
n == 1

\* new_width, new_height = int(width * 1.2), int(height * 1.2); image.resize(...)
resize(img) == [width |-> (img.width * 6) \div 5, height |-> (img.height * 6) \div 5]

\* total_steps = len(stripes) * n
total_steps == Len(stripes) * n

\* enumerate(stripes, start=1): the stripe number of loop iteration s (1-based)
StripeOfStep(s) == ((s - 1) % Len(stripes)) + 1

\* variant: the loops stop one iteration early
LoopExhaustedEarly(s, total) == s >= total - 1

\* the two for loops are exhausted after total steps iterations
LoopExhausted(s, total) == s >= total

\* encode_image_pil: image.save(..., format="JPEG") raises on an empty image
EncodeFails(stripe) == stripe.right <= stripe.left \/ stripe.lower <= stripe.upper

Init ==
    /\ image = NoValue
    /\ stripe_count = DefaultStripeCount
    /\ overlap = DefaultOverlap
    /\ split_status = "pending"
    /\ stripes = <<>>
    /\ markdown_runs = <<>> /\ fmt_status = "idle" /\ fmt_result = NoValue
    /\ consolidation_requests = <<>>
    /\ Quiet

\* lines 70-76 once the loops are exhausted: format_to_table(markdown_runs) is called
EnterConsolidation(exhausted) ==
    IF exhausted
    THEN pc' = "Consolidating" /\ fmt_status' = "called"
    ELSE pc' = "Extracting" /\ fmt_status' = fmt_status

\* lines 26-50: a file is uploaded, decoded, resized and split; the loop state is set up
Upload(file) ==
    /\ pc = "Idle"
    /\ LET img == resize(file)
           r   == split_image_into_horizontal_stripes(img, DefaultStripeCount, DefaultOverlap)
       IN  /\ image' = Some(img)
           /\ split_status' = r.status
           /\ stripes' = r.stripes
           /\ extracted' = [k \in 1..Len(r.stripes) |-> NoValue]
           /\ EnterConsolidation(LoopExhausted(0, Len(r.stripes) * n))
    /\ step' = 0
    /\ markdown_runs' = <<>>
    /\ UNCHANGED <<stripe_count, overlap, in_flight, fmt_result, table_output, shown,
                   download_offered, vision_calls, ocr_failed, consolidation_requests>>

\* line 30: Image.open raises on a file that is no image; the script stops
UploadUndecodable ==
    /\ pc = "Idle"
    /\ pc' = "Failed"
    /\ UNCHANGED <<step, in_flight, table_output, shown, download_offered,
                   vision_calls, extracted, ocr_failed>>
    /\ UNCHANGED splitVars
    /\ UNCHANGED fmtVars

\* lines 86-87: no file was uploaded
NoUpload ==
    /\ pc = "Idle"
    /\ pc' = "NoFile"
    /\ UNCHANGED <<step, in_flight, table_output, shown, download_offered,
                   vision_calls, extracted, ocr_failed>>
    /\ UNCHANGED splitVars
    /\ UNCHANGED fmtVars

\* lines 56-67 and ocr() up to groq_llm.invoke: the next stripe is encoded and sent
OcrInvoke ==
    /\ pc = "Extracting"
    /\ ~in_flight
    /\ ~LoopExhausted(step, total_steps)
    /\ step' = step + 1
    /\ LET i == StripeOfStep(step + 1)
       IN  IF EncodeFails(stripes[i])
           THEN /\ ocr_failed' = TRUE
                /\ pc' = "Failed"
                /\ UNCHANGED <<in_flight, vision_calls>>
           ELSE /\ vision_calls' = Append(vision_calls, i)
                /\ in_flight' = TRUE
                /\ UNCHANGED <<ocr_failed, pc>>
    /\ UNCHANGED <<table_output, shown, download_offered, extracted>>
    /\ UNCHANGED splitVars
    /\ UNCHANGED fmtVars

\* variant: markdown_runs.insert(0, stripe_markdown)
AccumulateInFront(runs, text) == <<text>> \o runs

\* markdown_runs.append(stripe_markdown)
Accumulate(runs, text) == Append(runs, text)

\* ocr() returns response.content.strip(); line 68 appends it; lines 70-76 follow the last one
OcrReturn(raw) ==
    /\ pc = "Extracting"
    /\ in_flight
    /\ in_flight' = FALSE
    /\ LET text == strip(raw)
       IN  /\ markdown_runs' = Accumulate(markdown_runs, text)
           /\ extracted' = [extracted EXCEPT ![StripeOfStep(step)] = Some(text)]
    /\ EnterConsolidation(LoopExhausted(step, total_steps))
    /\ UNCHANGED <<step, table_output, shown, download_offered, vision_calls, ocr_failed,
                   fmt_result, consolidation_requests>>
    /\ UNCHANGED splitVars

\* groq_llm.invoke in ocr() raises; nothing catches it and the script stops
OcrRaise ==
    /\ pc = "Extracting"
    /\ in_flight
    /\ in_flight' = FALSE
    /\ ocr_failed' = TRUE
    /\ pc' = "Failed"
    /\ UNCHANGED <<step, table_output, shown, download_offered, vision_calls, extracted>>
    /\ UNCHANGED splitVars
    /\ UNCHANGED fmtVars

\* lines 74-85: format_to_table returned; the table is rendered and offered for download
ShowTable ==
    /\ pc = "Consolidating"
    /\ fmt_status = "returned"
    /\ table_output' = fmt_result
    /\ shown' = TRUE
    /\ download_offered' = TRUE
    /\ pc' = "Done"
    /\ UNCHANGED <<step, in_flight, vision_calls, extracted, ocr_failed>>
    /\ UNCHANGED splitVars
    /\ UNCHANGED fmtVars

\* variant: the error is caught and the unconsolidated texts are shown instead
ShowPartialOnFormatError ==
    /\ pc = "Consolidating"
    /\ fmt_status = "raised"
    /\ table_output' = Some(combined_markdown(markdown_runs))
    /\ shown' = TRUE
    /\ download_offered' = TRUE
    /\ pc' = "Done"
    /\ UNCHANGED <<step, in_flight, vision_calls, extracted, ocr_failed>>
    /\ UNCHANGED splitVars
    /\ UNCHANGED fmtVars

\* line 74: format_to_table raised; nothing catches it and the script stops
AbortOnFormatError ==
    /\ pc = "Consolidating"
    /\ fmt_status = "raised"
    /\ pc' = "Failed"
    /\ UNCHANGED <<step, in_flight, table_output, shown, download_offered,
                   vision_calls, extracted, ocr_failed>>
    /\ UNCHANGED splitVars
    /\ UNCHANGED fmtVars

Next ==
    \/ \E file \in Images : Upload(file)
    \/ UploadUndecodable
    \/ NoUpload
    \/ OcrInvoke
    \/ \E raw \in RawResponses : OcrReturn(raw)
    \/ OcrRaise
    \/ FormatInvoke
    \/ \E raw \in RawResponses : FormatReturn(raw)
    \/ FormatRaise
    \/ ShowTable
    \/ AbortOnFormatError

Spec == Init /\ [][Next]_vars

(***************************************************************************)
(* Properties of split_image_into_horizontal_stripes (under SpecSplit).    *)
(***************************************************************************)
SplitDone == split_status # "pending"
SplitReturned == split_status = "returned"

ImageHeight == TheValue(image).height
ImageWidth  == TheValue(image).width

CountValid   == stripe_count >= 1
OverlapValid == 0 <= overlap.num /\ overlap.num <= overlap.den
ArgsValid    == CountValid /\ OverlapValid /\ ImageHeight >= 1

\* the quantities of section 4.1 of the specification, computed from the arguments
BaseStripeHeight == ImageHeight \div stripe_count
OverlapRows      == (BaseStripeHeight * overlap.num) \div overlap.den

RowCovered(row) == \E k \in 1..Len(stripes) : stripes[k].upper <= row /\ row < stripes[k].lower

Rows(k) == <<stripes[k].upper, stripes[k].lower>>

\* C1 (as claimed): for H >= 1, n >= 1 and f in [0,1] the call returns n stripes whose
\* row ranges cover every row of [0, H); the first starts at 0 and the last ends at H.
C1_CoversAllRows ==
    (SplitDone /\ ArgsValid) =>
        /\ SplitReturned
        /\ Len(stripes) = stripe_count
        /\ \A row \in 0..(ImageHeight - 1) : RowCovered(row)
        /\ stripes[1].upper = 0
        /\ stripes[Len(stripes)].lower = ImageHeight

\* neither the lower bound of stripe k nor the upper bound of stripe k+1 (1-based) was clamped
Unclamped(k) ==
    /\ k * BaseStripeHeight + OverlapRows <= ImageHeight
    /\ k * BaseStripeHeight - OverlapRows >= 0

SharedRows(k) == stripes[k].lower - stripes[k + 1].upper

\* C2 (as claimed): for n >= 2 and f > 0, adjacent stripes share exactly
\* floor(baseStripeHeight * f) rows when neither bound was clamped.
C2_SharesOverlapRows ==
    (SplitReturned /\ ImageHeight >= 1 /\ stripe_count >= 2 /\ overlap.num > 0) =>
        \A k \in 1..(stripe_count - 1) : Unclamped(k) => SharedRows(k) = OverlapRows

\* C2 (amended): for n >= 2 and f > 0, adjacent stripes share exactly
\* 2 * floor(baseStripeHeight * f) rows when neither bound was clamped: each of the
\* two stripes reaches floor(baseStripeHeight * f) rows across the cut line.
C2_SharesTwiceOverlapRows ==
    (SplitReturned /\ ImageHeight >= 1 /\ stripe_count >= 2 /\ overlap.num > 0) =>
        /\ Len(stripes) = stripe_count
        /\ \A k \in 1..(stripe_count - 1) : Unclamped(k) => SharedRows(k) = 2 * OverlapRows

C2_Witness ==
    /\ SplitReturned /\ ArgsValid /\ stripe_count >= 3 /\ overlap.num > 0
    /\ OverlapRows >= 1
    /\ \A k \in 1..(stripe_count - 1) : Unclamped(k) /\ SharedRows(k) = 2 * OverlapRows

\* C3 (as claimed): with n < 1 or f outside [0,1] the call fails with ValueError
\* and returns no stripes.
C3_RejectsInvalidArguments ==
    (SplitDone /\ ~(CountValid /\ OverlapValid)) =>
        (split_status = "ValueError" /\ stripes = <<>>)

ExampleCall ==
    /\ image = Some(ExampleImage)
    /\ stripe_count = 5
    /\ overlap = Frac(1, 10)
    /\ SplitDone

\* C8 (as claimed): a 500x1000 image with n = 5, f = 0.1 gives stripe 0 = rows [0, 220),
\* stripe 2 = rows [180, 420), stripe 4 = rows [780, 1000).
C8_ExampleAsClaimed ==
    ExampleCall =>
        /\ SplitReturned
        /\ Len(stripes) = 5
        /\ Rows(1) = <<0, 220>>
        /\ Rows(3) = <<180, 420>>
        /\ Rows(5) = <<780, 1000>>

\* C8 (amended): a 500x1000 image with n = 5, f = 0.1 gives stripe 0 = rows [0, 220),
\* stripe 2 = rows [380, 620), stripe 4 = rows [780, 1000); rows [180, 420) are stripe 1.
C8_Example ==
    ExampleCall =>
        /\ SplitReturned
        /\ Len(stripes) = 5
        /\ Rows(1) = <<0, 220>>
        /\ Rows(2) = <<180, 420>>
        /\ Rows(3) = <<380, 620>>
        /\ Rows(5) = <<780, 1000>>

C8_Witness == ExampleCall /\ SplitReturned /\ Len(stripes) = 5

\* C9: for H >= 1 and f in [0,1], n = 1 returns exactly one stripe, with rows [0, H)
\* and the full image width.
C9_SingleStripeIsWholeImage ==
    (SplitDone /\ ArgsValid /\ stripe_count = 1) =>
        /\ SplitReturned
        /\ Len(stripes) = 1
        /\ stripes[1] = [left |-> 0, upper |-> 0, right |-> ImageWidth, lower |-> ImageHeight]

C9_Witness ==
    /\ SplitReturned /\ ArgsValid /\ stripe_count = 1
    /\ OverlapRows >= 1
    /\ ImageWidth >= 2
    /\ Len(stripes) = 1

\* C10: for H >= 1, n >= 1 and f in [0,1] the call returns exactly n stripes, top to
\* bottom, with 0 <= upper <= lower <= H for each, upper and lower non-decreasing
\* along the list, and every stripe non-empty when H >= n.
C10_WellFormedStripes ==
    (SplitDone /\ ArgsValid) =>
        /\ SplitReturned
        /\ Len(stripes) = stripe_count
        /\ \A k \in 1..Len(stripes) :
              /\ 0 <= stripes[k].upper
              /\ stripes[k].upper <= stripes[k].lower
              /\ stripes[k].lower <= ImageHeight
              /\ (ImageHeight >= stripe_count => stripes[k].upper < stripes[k].lower)
        /\ \A k \in 1..(Len(stripes) - 1) :
              /\ stripes[k].upper <= stripes[k + 1].upper
              /\ stripes[k].lower <= stripes[k + 1].lower

C10_Witness ==
    /\ SplitReturned /\ ArgsValid
    /\ stripe_count >= 3 /\ Len(stripes) = stripe_count
    /\ ImageHeight >= stripe_count
    /\ OverlapRows >= 1
    /\ stripes[1].upper = 0 /\ stripes[2].upper > 0

(***************************************************************************)
(* Property of format_to_table (under SpecFormat).                         *)
(***************************************************************************)
\* C4 (as claimed): format_to_table called with an empty list fails with ValueError
\* and sends no request to the consolidation model.
C4_RejectsEmptyList ==
    (markdown_runs = <<>> /\ fmt_status # "called") =>
        (fmt_status = "ValueError" /\ consolidation_requests = <<>>)

(***************************************************************************)
(* Properties of a run of app.py (under Spec).                             *)
(***************************************************************************)
ConsolidationIssued == consolidation_requests # <<>>

AllExtracted == \A k \in 1..Len(stripes) : extracted[k] # NoValue

\* C5: the consolidation request is never issued before every stripe's extraction has
\* returned successfully; once an extraction has failed the run is in Failed and no
\* consolidation call was made or requested.
C5_ConsolidationAfterAllExtractions ==
    /\ (ConsolidationIssued \/ fmt_status # "idle") =>
          /\ Len(stripes) = DefaultStripeCount
          /\ Len(extracted) = Len(stripes)
          /\ AllExtracted
          /\ ~ocr_failed
          /\ ~in_flight
    /\ ocr_failed =>
          /\ pc = "Failed"
          /\ ~ConsolidationIssued
          /\ fmt_status = "idle"

C5_Witness ==
    /\ pc = "Consolidating"
    /\ Len(consolidation_requests) = 1
    /\ Len(vision_calls) = DefaultStripeCount
    /\ AllExtracted

\* the text returned by ocr() for stripe k (1-based)
TextOf(k) == TheValue(extracted[k])

\* position in the combined text at which the text of stripe k starts
RECURSIVE StartOf(_)
StartOf(k) == IF k = 1 THEN 1 ELSE StartOf(k - 1) + Len(TextOf(k - 1)) + 2

\* r is the texts of stripes 1..m in that order, adjacent ones separated by a blank line
InStripeOrder(r, m) ==
    /\ m >= 1
    /\ Len(r) = StartOf(m) + Len(TextOf(m)) - 1
    /\ \A k \in 1..m :
          SubSeq(r, StartOf(k), StartOf(k) + Len(TextOf(k)) - 1) = TextOf(k)
    /\ \A k \in 1..(m - 1) :
          /\ r[StartOf(k) + Len(TextOf(k))] = "\n"
          /\ r[StartOf(k) + Len(TextOf(k)) + 1] = "\n"

\* C6: the vision model is invoked exactly once per stripe, and the combined text sent
\* to the consolidation model is the per-stripe texts in stripe order (first stripe
\* first), adjacent texts separated by a blank line, none dropped, repeated or moved.
C6_OncePerStripeInOrder ==
    /\ \A a, b \in 1..Len(vision_calls) : a # b => vision_calls[a] # vision_calls[b]
    /\ ConsolidationIssued =>
          /\ Len(consolidation_requests) = 1
          /\ vision_calls = [k \in 1..Len(stripes) |-> k]
          /\ AllExtracted
          /\ InStripeOrder(consolidation_requests[1], Len(stripes))

C6_Witness ==
    /\ ConsolidationIssued
    /\ AllExtracted
    /\ TextOf(1) # <<>>
    /\ TextOf(1) # TextOf(2)
    /\ TextOf(Len(stripes)) # TextOf(1)

TableVisible == shown \/ download_offered \/ table_output # NoValue

\* C7: a table is shown or offered for download only in Done, after the consolidation
\* call has returned; when the consolidation call fails nothing is shown although all
\* extractions succeeded; and no step of the run is taken from Failed.
C7_NoPartialResult ==
    /\ [](/\ TableVisible =>
                (pc = "Done" /\ fmt_status = "returned" /\ table_output = fmt_result
                             /\ shown /\ download_offered)
          /\ pc = "Done" => (fmt_status = "returned" /\ shown)
          /\ fmt_status = "raised" => ~TableVisible)
    /\ [][pc # "Failed"]_vars

C7_Witness ==
    /\ pc = "Failed"
    /\ fmt_status = "raised"
    /\ AllExtracted /\ Len(markdown_runs) = DefaultStripeCount
    /\ ~TableVisible

====
